---- MODULE Spec2Model ----
(***************************************************************************)
(* Model of the text-corpus tool.  The server side: the MongoService store *)
(* gateway (src/services/MongoService.js) and the Express request handlers *)
(* that call it (src/unnamed/part_000, lines 1-173).                       *)
(*                                                                         *)
(* Node runs the handlers on one thread: code between two awaits is one    *)
(* atomic step, and every await is a point where other requests may run.   *)
(* Each request is a process whose pc names the await it is suspended at.  *)
(* The MongoDB collection 'text-corpus' is a sequence of documents in      *)
(* insertion order; the repository creates no index on it.                 *)
(*                                                                         *)
(* Further specifications cover the server's shutdown (LifeSpec), the      *)
(* page's text normalizer cleanText (CleanSpec) and the page's preview and *)
(* submit flow (PageSpec), for both page scripts of the repository.        *)
(***************************************************************************)
EXTENDS Integers, Sequences, FiniteSets, TLC

\* Number of requests / gateway calls issued in one run of the server.
MaxReq == 3

\* Number of requests the server is serving at one time.
MaxInFlight == 2

\* Length of the content prefix used by the duplicate-content check.
PrefixLen == 100

Reqs == 1..MaxReq

\* JavaScript null, for object references held as numbers.
NULL == 0

VARIABLES
    client,     \* MongoService.client: NULL or the number of a MongoClient
    db,         \* MongoService.db: NULL or the number of the client it belongs to
    conn,       \* per MongoClient constructed, in order: its connection state
    store,      \* the collection 'text-corpus'
    req,        \* the requests: operation, arguments, position, result
    proc,       \* the server process: "running", or how it exited
    norm,       \* a text under the page's normalizer: input and results
    form,       \* the page's form fields
    currentDocumentData,    \* the page's held record, NULL when there is none
    previewed,  \* the record of the latest successful generatePreview since
                \* the page was loaded or the preview dropped, NULL if none
    page,       \* the page's script, insert button, timers and clock
    calls       \* the page's insertDocument() calls, in the order issued

\* The server's connection and store, and its requests.
server == <<client, db, conn, store, req>>

\* The state of the page in the operator's browser.
browser == <<norm, form, currentDocumentData, previewed, page, calls>>

\* The page but for the text under the normalizer.
pageVars == <<form, currentDocumentData, previewed, page, calls>>

vars == <<client, db, conn, store, req, proc, norm, form,
          currentDocumentData, previewed, page, calls>>

----------------------------------------------------------------------------
(* Strings are sequences of one-character strings; messages are sequences *)
(* of words.                                                               *)

Min(a, b) == IF a < b THEN a ELSE b

Repeat(c, n) == [i \in 1..n |-> c]

\* String.prototype.includes on word sequences.
Includes(msg, needle) ==
    \E i \in 1..(Len(msg) - Len(needle) + 1) :
        SubSeq(msg, i, i + Len(needle) - 1) = needle

\* String.prototype.substring(0, n).
Substring0(s, n) == SubSeq(s, 1, Min(n, Len(s)))

\* Math.ceil(n / 4) for n >= 0.
CeilDiv4(n) == (n + 3) \div 4

----------------------------------------------------------------------------
(* The duplicate-content pattern of insertDocument and the store's $regex *)
(* matching of it.                                                         *)

\* The characters the replace() of line 38 escapes: [.*+?^${}()|[\]\\]
RegexSpecial ==
    {".", "*", "+", "?", "^", "$", "{", "}", "(", ")", "|", "[", "]", "\\"}

\* '\\$&' : a backslash, then the matched character.
EscapeChar(c) == IF c \in RegexSpecial THEN <<"\\", c>> ELSE <<c>>

\* s.replace(/[.*+?^${}()|[\]\\]/g, '\\$&'): every character replaced on its own.
RECURSIVE EscapeRegExp(_)
EscapeRegExp(s) ==
    IF Len(s) = 0 THEN <<>>
    ELSE IF Len(s) = 1 THEN EscapeChar(s[1])
    ELSE LET h == Len(s) \div 2
         IN  EscapeRegExp(SubSeq(s, 1, h)) \o EscapeRegExp(SubSeq(s, h + 1, Len(s)))

\* The pattern without the replace(): `^${...substring(0, 100)}`.
ContentPatternUnescaped(text) == <<"^">> \o Substring0(text, PrefixLen)

\* `^${document.content_text.substring(0, 100).replace(...)}`
ContentPattern(text) == <<"^">> \o EscapeRegExp(Substring0(text, PrefixLen))

\* Whether the character at index m of re is the second character of an
\* escape \c of the atoms that start at index i: an odd number of
\* backslashes runs up to it.
Escaped(re, i, m) ==
    LET stops == {k \in (i - 1)..(m - 1) : k = i - 1 \/ re[k] # "\\"}
        last == CHOOSE k \in stops : \A o \in stops : o <= k
    IN  (m - 1 - last) % 2 = 1

\* The regular expression engine of the store, for the pattern language the
\* model's texts can produce: literal characters, \c (the character c) and
\* '.' (any character).  The atoms re[i..j] are matched against t from
\* index k on (k = 0: an earlier atom did not match); the result is the
\* index of t after the match, 0 when there is none.  The atoms are matched
\* left to right, half by half.
RECURSIVE MatchSeg(_, _, _, _, _)
MatchSeg(re, i, j, t, k) ==
    IF i > j \/ k = 0 THEN k
    ELSE IF j = i \/ (j = i + 1 /\ re[i] = "\\")
    THEN LET esc == j = i + 1
             ch == re[j]
         IN  IF k <= Len(t) /\ ((~esc /\ ch = ".") \/ t[k] = ch)
             THEN k + 1 ELSE 0
    ELSE LET half == (i + j + 1) \div 2
             m == IF Escaped(re, i, half) THEN half + 1 ELSE half
         IN  MatchSeg(re, m, j, t, MatchSeg(re, i, m - 1, t, k))

\* { $regex: re } : a match anywhere in t, at the start only after '^'.
RegexTest(re, t) ==
    IF Len(re) > 0 /\ re[1] = "^" THEN MatchSeg(re, 2, Len(re), t, 1) # 0
    ELSE \E k \in 1..(Len(t) + 1) : MatchSeg(re, 1, Len(re), t, k) # 0

----------------------------------------------------------------------------
(* Request bodies, patches and error messages.                             *)

\* The texts of the model, by name; Chars gives the characters of each.
TextNone == ""
TextA == "a"
TextAB == "ab"
TextADot == "a."
TextLongB == "a{100}b"
TextLongC == "a{100}c"

Chars(text) ==
    CASE text = TextA -> <<"a">>
      [] text = TextAB -> <<"a", "b">>
      [] text = TextADot -> <<"a", ".">>
      [] text = TextLongB -> Repeat("a", PrefixLen) \o <<"b">>
      [] text = TextLongC -> Repeat("a", PrefixLen) \o <<"c">>
      [] OTHER -> <<>>

Texts == {TextA, TextAB, TextADot, TextLongB, TextLongC}

\* text.length
Length(text) == Len(Chars(text))

\* For each pair of texts, whether the stored text old satisfies the $regex
\* built from the text new (computed once per pair).
RegexMatches ==
    [new \in Texts, old \in Texts |->
        RegexTest(ContentPattern(Chars(new)), Chars(old))]

\* A record as the page's createDocumentStructure builds it: the counts are
\* those of the text, version is 1.  An absent or empty field is "" (0 for a
\* number); has_attribution tells whether the body has an attribution object
\* at all.
Doc(id, text, title, author, ctype) ==
    [document_id |-> id, content_text |-> text, has_attribution |-> TRUE,
     title |-> title, author |-> author, content_type |-> ctype,
     character_count |-> Length(text),
     token_count |-> CeilDiv4(Length(text)),
     version |-> 1]

\* A JSON body with just what the handler's validation asks for: no
\* content_type, no training_metadata, no version.
Minimal(id, text, title, author) ==
    [Doc(id, text, title, author, "") EXCEPT
        !.character_count = 0, !.token_count = 0, !.version = 0]

\* The bodies a client may POST to /api/insert-document: records as the page
\* builds them, a minimal body, and bodies that lack a required field.
Bodies ==
    { Doc(1, TextAB, "T", "A", "book"),
      Doc(2, TextA, "T", "A", "book"),
      Doc(2, TextADot, "T", "A", "book"),
      Doc(1, TextLongB, "U", "A", "article"),
      Doc(2, TextLongC, "U", "A", "article"),
      Minimal(2, TextAB, "T", "B"),
      Doc(1, TextAB, "", "A", "book"),
      Doc(1, TextAB, "T", "", "book"),
      Doc(1, TextNone, "T", "A", "book"),
      [Doc(1, TextAB, "", "", "") EXCEPT !.has_attribution = FALSE] }

DocumentIds == {b.document_id : b \in Bodies}

\* The object of line 65, { $inc: { version: 1 } }, as a value.
VersionIncObject == [inc |-> [version |-> 1]]

\* The patches a caller may pass to updateDocument.
Patches ==
    { [content_text |-> TextA],
      [version |-> 5] }

NoBody == [Doc(0, TextNone, "", "", "") EXCEPT !.has_attribution = FALSE]
NoPatch == [content_text |-> TextNone]

MsgMissingFields ==
    <<"Missing", "required", "fields:", "content_text", "and", "attribution">>
MsgMissingAttribution ==
    <<"Missing", "required", "attribution", "fields:", "title", "and", "author">>
MsgDuplicateId ==
    <<"Document", "with", "this", "ID", "already", "exists", "in", "corpus">>
MsgDuplicateContent ==
    <<"Similar", "content", "already", "exists", "in", "corpus">>
MsgFailedToInsert == <<"Failed", "to", "insert", "document:">>
\* TypeError of db.collection(...) on a null db.
MsgNullCollection ==
    <<"Cannot", "read", "properties", "of", "null", "(reading", "'collection')">>
\* TypeError of this.client.db(...) on a null client.
MsgNullDb ==
    <<"Cannot", "read", "properties", "of", "null", "(reading", "'db')">>
\* The driver's error when the server cannot be reached.
MsgConnectFailed == <<"connect", "ECONNREFUSED">>
\* The server's error for an update whose operators name one path twice.
MsgUpdateConflict ==
    <<"Updating", "the", "path", "'version'", "would", "create", "a",
      "conflict", "at", "'version'">>
NoMsg == <<>>

----------------------------------------------------------------------------
(* The store's collection operations (the MongoDB driver and server).      *)

\* findOne, updateOne and deleteOne act on the first document of the
\* collection that satisfies the filter: the least of the positions hits of
\* the documents that satisfy it, 0 if there is none.
FirstMatch(hits) ==
    IF hits = {} THEN 0
    ELSE CHOOSE i \in hits : \A k \in hits : i <= k

\* collection.deleteOne(filter): the collection without its first match.
DeleteAt(coll, i) ==
    IF i = 0 THEN coll
    ELSE SubSeq(coll, 1, i - 1) \o SubSeq(coll, i + 1, Len(coll))

\* An update document is rejected when two operators name the same path.
UpdateConflicts(setDoc, incDoc) == (DOMAIN setDoc) \cap (DOMAIN incDoc) # {}

\* { $set: setDoc, $inc: incDoc } applied to one document.
ApplyUpdate(d, setDoc, incDoc) ==
    [f \in (DOMAIN d) \cup (DOMAIN setDoc) \cup (DOMAIN incDoc) |->
        IF f \in DOMAIN setDoc THEN setDoc[f]
        ELSE IF f \in DOMAIN incDoc
             THEN (IF f \in DOMAIN d THEN d[f] ELSE 0) + incDoc[f]
             ELSE d[f]]

----------------------------------------------------------------------------
(* The requests.                                                           *)

\* A request that has not arrived yet.
Idle ==
    [op |-> "none", pc |-> "idle", body |-> NoBody, id |-> 0,
     patch |-> NoPatch, cl |-> NULL, handle |-> -1, status |-> 0,
     error |-> NoMsg, insertedId |-> 0, thrown |-> NoMsg, count |-> -1]

\* new Date(): a clock that advances with every arrival of a request.
Now == Cardinality({q \in Reqs : req[q].pc # "idle"}) + 1

InFlight == {q \in Reqs : req[q].pc \notin {"idle", "done"}}

\* Requests are numbered in the order of their arrival.
Arrives(p) ==
    /\ req[p].pc = "idle"
    /\ \A q \in Reqs : q < p => req[q].pc # "idle"
    /\ Cardinality(InFlight) < MaxInFlight

\* The request r finished: its handler has returned and its locals are gone.
Done(r) ==
    [r EXCEPT !.pc = "done", !.body = NoBody, !.id = 0, !.patch = NoPatch,
              !.cl = NULL]

\* The catch block testing for the duplicate-id message only.
InsertCatchIdOnly(r, msg) ==
    IF Includes(msg, <<"ID", "already", "exists">>)
    THEN Done([r EXCEPT !.thrown = msg, !.status = 409, !.error = msg])
    ELSE Done([r EXCEPT !.thrown = msg, !.status = 500,
                        !.error = MsgFailedToInsert \o msg])

\* The catch block of POST /api/insert-document.
InsertCatch(r, msg) ==
    IF Includes(msg, <<"already", "exists">>)
    THEN Done([r EXCEPT !.thrown = msg, !.status = 409, !.error = msg])
    ELSE Done([r EXCEPT !.thrown = msg, !.status = 500,
                        !.error = MsgFailedToInsert \o msg])

\* The catch block of GET /api/health.
HealthCatch(r, msg) ==
    Done([r EXCEPT !.thrown = msg, !.status = 503, !.error = msg])

\* A gateway method rejects with msg: the request as its caller leaves it.
Caught(r, msg) ==
    CASE r.op = "insert" -> InsertCatch(r, msg)
      [] r.op = "health" -> HealthCatch(r, msg)
      [] OTHER -> Done([r EXCEPT !.thrown = msg])

\* updateDocument, lines 64-65: the patch with updated_at and version set.
UpdateData(patch) ==
    [f \in (DOMAIN patch) \cup {"updated_at", "version"} |->
        IF f = "updated_at" THEN Now
        ELSE IF f = "version" THEN VersionIncObject
        ELSE patch[f]]

\* What follows `await this.connect()` once connect() has returned h: the
\* health handler answers; a gateway method takes db.collection(...) and
\* sends its first command.
AfterConnect(r, h) ==
    LET got == [r EXCEPT !.handle = h]
    IN  CASE r.op = "health" -> Done([got EXCEPT !.status = 200])
          [] h = NULL -> Caught(got, MsgNullCollection)
          [] r.op = "insert" -> [got EXCEPT !.pc = "findById"]
          [] r.op = "update" ->
                [got EXCEPT !.pc = "updateOne", !.patch = UpdateData(r.patch)]
          [] OTHER -> [got EXCEPT !.pc = "deleteOne"]

\* connect() guarded by the handle instead of the client: `if (!this.db)`.
NeedsClientByDb == db = NULL

\* connect(), line 11: `if (!this.client)`.
NeedsClient == client = NULL

\* connect() called by request p, whose record is r: up to its await, or up
\* to its return when there is a client already.
connect(p, r) ==
    IF NeedsClient
    THEN /\ client' = Len(conn) + 1
         /\ conn' = Append(conn, "connecting")
         /\ req' = [req EXCEPT ![p] = [r EXCEPT !.pc = "connect",
                                                !.cl = Len(conn) + 1]]
         /\ UNCHANGED <<db, store>>
    ELSE /\ req' = [req EXCEPT ![p] = AfterConnect(r, db)]
         /\ UNCHANGED <<client, db, conn, store>>

----------------------------------------------------------------------------
(* The page's text normalizer, cleanText, and the JavaScript regular       *)
(* expressions it is made of.  A character outside ASCII is written as its *)
(* code point, "U+00E2".                                                   *)

Lower ==
    {"a", "b", "c", "d", "e", "f", "g", "h", "i", "j", "k", "l", "m",
     "n", "o", "p", "q", "r", "s", "t", "u", "v", "w", "x", "y", "z"}
Upper ==
    {"A", "B", "C", "D", "E", "F", "G", "H", "I", "J", "K", "L", "M",
     "N", "O", "P", "Q", "R", "S", "T", "U", "V", "W", "X", "Y", "Z"}
\* \d
Digit == {"0", "1", "2", "3", "4", "5", "6", "7", "8", "9"}
\* \w
Word == Lower \cup Upper \cup Digit \cup {"_"}
\* \s, and the characters trim() removes.
Space == {" ", "\t", "\n", "\r", "\f", "U+000B", "U+00A0", "U+FEFF",
          "U+2028", "U+2029"}
\* [.,!?;:]
Punct == {".", ",", "!", "?", ";", ":"}

\* One quantified atom of a pattern: the characters of cls (those outside
\* cls when neg), from min to max times, greedy, in capture group grp (0:
\* none); or the assertion ^ or $ of a pattern with the m flag.
Atom(cls, neg, min, max, grp) ==
    [kind |-> "chars", cls |-> cls, neg |-> neg, min |-> min, max |-> max,
     grp |-> grp]
\* More repetitions than any text of the model has characters.
Many == 1000
One(cls) == Atom(cls, FALSE, 1, 1, 0)
Star(cls) == Atom(cls, FALSE, 0, Many, 0)
Plus(cls) == Atom(cls, FALSE, 1, Many, 0)
Bol == [kind |-> "bol", cls |-> {}, neg |-> FALSE, min |-> 0, max |-> 0, grp |-> 0]
Eol == [kind |-> "eol", cls |-> {}, neg |-> FALSE, min |-> 0, max |-> 0, grp |-> 0]

\* The literal characters lit of a pattern.
Literal(lit) == [i \in 1..Len(lit) |-> One({lit[i]})]

\* A piece of a replacement string: a character, or $g.
Lit(c) == [lit |-> c, grp |-> 0]
Ref(g) == [lit |-> "", grp |-> g]

InClass(c, a) == (c \in a.cls) # a.neg

\* The number of characters of s from index k on that atom a can take.
Run(s, k, a) ==
    LET most == Min(a.max, Len(s) - k + 1)
    IN  CHOOSE n \in 0..most :
            /\ \A j \in 0..(n - 1) : InClass(s[k + j], a)
            /\ n = most \/ ~InClass(s[k + n], a)

\* Whether the assertion a (^ or $, with the m flag) holds at index k of s.
Holds(a, s, k) ==
    IF a.kind = "bol" THEN k = 1 \/ s[k - 1] = "\n"
    ELSE k = Len(s) + 1 \/ s[k] = "\n"

\* The most and the fewest characters atom a may take at index k of s (an
\* assertion takes none, and more than it can when it does not hold).
Most(a, s, k) == IF a.kind = "chars" THEN Run(s, k, a) ELSE 0
Fewest(a, s, k) ==
    IF a.kind = "chars" THEN a.min ELSE IF Holds(a, s, k) THEN 0 ELSE 1

\* No match.
Fail == <<0>>

\* The match of the atoms re[i..] against s at index k, as the backtracking
\* matcher finds it: the index after each atom, Fail when there is no match.
\* Atom i first takes as many characters as it can, then one less as long
\* as the atoms after it do not match (TryCount, Longest).
RECURSIVE MatchAtoms(_, _, _, _)
RECURSIVE TryCount(_, _, _, _, _, _)
Longest(re, i, s, k, n, fewest, rest) ==
    IF rest # Fail THEN <<k + n>> \o rest
    ELSE TryCount(re, i, s, k, n - 1, fewest)

TryCount(re, i, s, k, n, fewest) ==
    IF n < fewest THEN Fail
    ELSE Longest(re, i, s, k, n, fewest, MatchAtoms(re, i + 1, s, k + n))

MatchAtoms(re, i, s, k) ==
    IF i > Len(re) THEN <<>>
    ELSE TryCount(re, i, s, k, Most(re[i], s, k), Fewest(re[i], s, k))

\* The alternatives alts (a | b | ...) tried in order at index k, from the
\* j-th on: the number of the first that matches with its match, <<0, Fail>>
\* if none does.
RECURSIVE MatchAlts(_, _, _, _)
FirstAlt(alts, j, s, k, m) ==
    IF m # Fail THEN <<j, m>> ELSE MatchAlts(alts, j + 1, s, k)

MatchAlts(alts, j, s, k) ==
    IF j > Len(alts) THEN <<0, Fail>>
    ELSE FirstAlt(alts, j, s, k, MatchAtoms(alts[j], 1, s, k))

\* The text of capture group g in the match ends of re at index k.
Group(re, ends, s, k, g) ==
    LET at == {i \in 1..Len(re) : re[i].grp = g}
        first == CHOOSE i \in at : \A o \in at : i <= o
        last == CHOOSE i \in at : \A o \in at : o <= i
        from == IF first = 1 THEN k ELSE ends[first - 1]
    IN  IF at = {} THEN <<>> ELSE SubSeq(s, from, ends[last] - 1)

\* The replacement string with its $g filled in, from its n-th piece on.
RECURSIVE Fill(_, _, _, _, _, _)
Fill(with, n, re, ends, s, k) ==
    IF n > Len(with) THEN <<>>
    ELSE (IF with[n].grp = 0 THEN <<with[n].lit>>
          ELSE Group(re, ends, s, k, with[n].grp))
         \o Fill(with, n + 1, re, ends, s, k)

\* s.replace(/alts/g, with) from index k on: the matches are found left to
\* right in s, each search starting where the match before it ended (one
\* character further after an empty match).  m is the match at k.
RECURSIVE ReplaceFrom(_, _, _, _)
ReplaceAt(s, alts, with, k, m) ==
    LET matched == m[1] # 0
        end == IF matched THEN m[2][Len(m[2])] ELSE k
        new == IF matched THEN Fill(with, 1, alts[m[1]], m[2], s, k) ELSE <<>>
        kept == IF end = k /\ k <= Len(s) THEN <<s[k]>> ELSE <<>>
    IN  new \o kept
            \o ReplaceFrom(s, alts, with, IF end = k THEN k + 1 ELSE end)

ReplaceFrom(s, alts, with, k) ==
    IF k > Len(s) + 1 THEN <<>>
    ELSE ReplaceAt(s, alts, with, k, MatchAlts(alts, 1, s, k))

\* String.prototype.replace with a global pattern.
Replace(s, alts, with) == ReplaceFrom(s, alts, with, 1)

\* String.prototype.trim.
Trim(s) ==
    LET keep == {i \in 1..Len(s) : s[i] \notin Space}
    IN  IF keep = {} THEN <<>>
        ELSE SubSeq(s, CHOOSE i \in keep : \A o \in keep : i <= o,
                       CHOOSE i \in keep : \A o \in keep : o <= i)

\* The canonical compositions of String.prototype.normalize('NFC') among the
\* characters of the model: e followed by a combining acute accent is e
\* with acute.
Composition == << <<One({"e"}), One({"U+0301"})>> >>

\* /['']/g and /[""]/g, as the source file has them.
Apostrophes == << <<One({"'"})>> >>
Quotes == << <<One({"\""})>> >>
\* The three-character sequences of steps 2c-2e, as the source file has them.
Ellipsis == << Literal(<<"U+00E2", "U+20AC", "U+00A6">>) >>
EmDash == << Literal(<<"U+00E2", "U+20AC", "U+201D">>) >>
EnDash == << Literal(<<"U+00E2", "U+20AC", "U+201C">>) >>
\* /^\s*\d+\s*$/gm
PageNumber == << <<Bol, Star(Space), Plus(Digit), Star(Space), Eol>> >>
\* /(\w+)-\s*\n\s*(\w+)/g
Hyphenation ==
    << <<Atom(Word, FALSE, 1, Many, 1), One({"-"}), Star(Space), One({"\n"}),
         Star(Space), Atom(Word, FALSE, 1, Many, 2)>> >>
\* /[^\S\n]+/g
Blanks == << <<Plus(Space \ {"\n"})>> >>
\* /\n{3,}/g
LineBreaks == << <<Atom({"\n"}, FALSE, 3, Many, 0)>> >>
\* /^[ \t]+|[ \t]+$/gm
LineEnds == << <<Bol, Plus({" ", "\t"})>>, <<Plus({" ", "\t"}), Eol>> >>
\* /\[\d+\]/g
Citation == << <<One({"["}), Plus(Digit), One({"]"})>> >>
\* /\s+([.,!?;:])/g
SpaceBeforePunct == << <<Plus(Space), Atom(Punct, FALSE, 1, 1, 1)>> >>
\* /([.,!?;:])\s*([.,!?;:])/g
PunctPair ==
    << <<Atom(Punct, FALSE, 1, 1, 1), Star(Space), Atom(Punct, FALSE, 1, 1, 2)>> >>
\* /https?:\/\/[^\s]+/g
Url ==
    << Literal(<<"h", "t", "t", "p">>) \o <<Atom({"s"}, FALSE, 0, 1, 0)>>
       \o Literal(<<":", "/", "/">>) \o <<Atom(Space, TRUE, 1, Many, 0)>> >>
\* /[\w.-]+@[\w.-]+\.\w+/g
Email ==
    << <<Plus(Word \cup {".", "-"}), One({"@"}), Plus(Word \cup {".", "-"}),
         One({"."}), Plus(Word)>> >>

\* A step of cleanText: cleaned = cleaned.replace(pattern, with).
Step(pattern, with) == [pattern |-> pattern, with |-> with]

\* The steps of cleanText before the final trim(), in their order.
CleanSteps ==
    << Step(Composition, <<Lit("U+00E9")>>),
       Step(Apostrophes, <<Lit("'")>>),
       Step(Quotes, <<Lit("\"")>>),
       Step(Ellipsis, <<Lit("."), Lit("."), Lit(".")>>),
       Step(EmDash, <<Lit("-"), Lit("-")>>),
       Step(EnDash, <<Lit("-")>>),
       Step(PageNumber, <<>>),
       Step(Hyphenation, <<Ref(1), Ref(2)>>),
       Step(Blanks, <<Lit(" ")>>),
       Step(LineBreaks, <<Lit("\n"), Lit("\n")>>),
       Step(LineEnds, <<>>),
       Step(Citation, <<>>),
       Step(SpaceBeforePunct, <<Ref(1)>>),
       Step(PunctPair, <<Ref(1), Lit(" "), Ref(2)>>),
       Step(Url, <<>>),
       Step(Email, <<>>) >>

\* The steps from the i-th on, applied to cleaned one after the other.
RECURSIVE ApplySteps(_, _)
ApplySteps(cleaned, i) ==
    IF i > Len(CleanSteps) THEN cleaned
    ELSE ApplySteps(Replace(cleaned, CleanSteps[i].pattern, CleanSteps[i].with),
                    i + 1)

\* cleanText(text), for a string text: '' for the empty string, otherwise
\* steps 1 to 11 and the final trim().
cleanText(text) ==
    IF text = <<>> THEN <<>> ELSE Trim(ApplySteps(text, 1))

\* Pieces of pasted text: a word, blanks, a line break, punctuation, a
\* number, a citation marker, a hyphen at a line break, an address, a link,
\* the ellipsis sequence, a decomposed accented letter.
Fragments ==
    { <<"a">>, <<" ">>, <<"\n">>, <<".">>, <<"7">>, <<"[", "1", "]">>,
      <<"-", "\n">>, <<"a", "@", "a", ".", "a">>,
      <<"h", "t", "t", "p", ":", "/", "/", "a">>,
      <<"U+00E2", "U+20AC", "U+00A6">>, <<"e", "U+0301">> }

\* Number of pieces in a pasted text.
MaxFragments == 3

RECURSIVE Flatten(_)
Flatten(fs) == IF fs = <<>> THEN <<>> ELSE Head(fs) \o Flatten(Tail(fs))

Inputs ==
    {Flatten(fs) : fs \in UNION {[1..n -> Fragments] : n \in 0..MaxFragments}}

\* No text is under the normalizer.
NoNorm == [pc |-> "idle", x |-> <<>>, once |-> <<>>, twice |-> <<>>]

----------------------------------------------------------------------------
(* The page.                                                               *)

\* The two page scripts of the repository: the one with the normalizer
\* (src/unnamed/part_000, lines 174-514) and the one the server serves from
\* its static directory (src/public/script.js).
ScriptCleaning == "part_000"
ScriptPublic == "public/script.js"
Scripts == {ScriptCleaning, ScriptPublic}

\* Number of previews generated, and of insert requests sent, by one page.
MaxPreviews == 2
MaxCalls == 2

\* The form fields the validation reads; texts are sequences of characters.
Form(title, author, ctype, text) ==
    [title |-> title, author |-> author, ctype |-> ctype, text |-> text]

\* The form after clearForm, and as the page loads.
EmptyForm == Form(<<>>, <<>>, "", <<>>)

\* What the operator may have typed: complete forms, one of them with
\* doubled blanks in its text and blanks around it, and forms that lack a
\* field or have only blanks in one.
Forms ==
    { EmptyForm,
      Form(<<"T">>, <<"A">>, "book", <<"a">>),
      Form(<<"T">>, <<"A">>, "book", <<" ", "a", " ", " ", "a", "\n">>),
      Form(<<" ">>, <<"A">>, "book", <<"a">>),
      Form(<<"T">>, <<>>, "book", <<"a">>),
      Form(<<"T">>, <<"A">>, "", <<"a">>),
      Form(<<"T">>, <<"A">>, "book", <<" ">>) }

\* validateForm().
validateForm(f) ==
    /\ Trim(f.title) # <<>>
    /\ Trim(f.author) # <<>>
    /\ f.ctype # ""
    /\ Trim(f.text) # <<>>

\* createDocumentStructure() of the page script, on the form f, with id the
\* fresh document_id.
createDocumentStructure(script, f, id) ==
    LET rawContentText == Trim(f.text)
        contentText == IF script = ScriptCleaning
                       THEN cleanText(rawContentText)
                       ELSE rawContentText
    IN  [document_id |-> id, content_text |-> contentText,
         title |-> Trim(f.title), author |-> Trim(f.author),
         content_type |-> f.ctype,
         character_count |-> Len(contentText),
         token_count |-> CeilDiv4(Len(contentText)),
         version |-> 1]

\* currentDocumentData = null.
NoDocument ==
    [document_id |-> 0, content_text |-> <<>>, title |-> <<>>,
     author |-> <<>>, content_type |-> "", character_count |-> 0,
     token_count |-> 0, version |-> 0]

\* The page as script loads: no record held, the insert button enabled, no
\* timer pending.
PageLoad(script) ==
    /\ form = EmptyForm
    /\ currentDocumentData = NoDocument
    /\ previewed = NoDocument
    /\ page = [script |-> script, disabled |-> FALSE, timers |-> 0,
               previews |-> 0]
    /\ calls = <<>>

----------------------------------------------------------------------------
(* The handlers and gateway methods, one action per step between awaits.   *)

\* The server started.
Start ==
    /\ client = NULL
    /\ db = NULL
    /\ conn = <<>>
    /\ store = <<>>
    /\ req = [p \in Reqs |-> Idle]
    /\ proc = "running"

Init == Start /\ norm = NoNorm /\ PageLoad(ScriptPublic)

\* POST /api/insert-document with body b, up to the first await of
\* mongoService.insertDocument.
PostInsertDocument(p, b) ==
    /\ Arrives(p)
    /\ LET r == [Idle EXCEPT !.op = "insert", !.body = b]
       IN  IF b.content_text = TextNone \/ ~b.has_attribution
           THEN /\ req' = [req EXCEPT ![p] =
                        Done([r EXCEPT !.status = 400,
                                       !.error = MsgMissingFields])]
                /\ UNCHANGED <<client, db, conn, store>>
           ELSE IF b.title = "" \/ b.author = ""
           THEN /\ req' = [req EXCEPT ![p] =
                        Done([r EXCEPT !.status = 400,
                                       !.error = MsgMissingAttribution])]
                /\ UNCHANGED <<client, db, conn, store>>
           ELSE LET document ==
                        [f \in (DOMAIN b) \cup {"created_at", "updated_at"} |->
                            IF f \in {"created_at", "updated_at"} THEN Now
                            ELSE IF f = "version" /\ b.version = 0 THEN 1
                            ELSE b[f]]
                IN  connect(p, [r EXCEPT !.body = document])
    /\ UNCHANGED <<proc, browser>>

\* mongoService.updateDocument(id, patch), up to its first await.
CallUpdateDocument(p, id, patch) ==
    /\ Arrives(p)
    /\ connect(p, [Idle EXCEPT !.op = "update", !.id = id, !.patch = patch])
    /\ UNCHANGED <<proc, browser>>

\* mongoService.deleteDocument(id), up to its first await.
CallDeleteDocument(p, id) ==
    /\ Arrives(p)
    /\ connect(p, [Idle EXCEPT !.op = "delete", !.id = id])
    /\ UNCHANGED <<proc, browser>>

\* GET /api/health, up to the await of mongoService.connect().
GetHealth(p) ==
    /\ Arrives(p)
    /\ connect(p, [Idle EXCEPT !.op = "health"])
    /\ UNCHANGED <<proc, browser>>

\* `await this.client.connect()` resolves: lines 14-17 and the caller's
\* continuation.
ConnectResolved(p) ==
    /\ req[p].pc = "connect"
    /\ conn' = [conn EXCEPT ![req[p].cl] = "connected"]
    /\ IF client = NULL
       THEN /\ req' = [req EXCEPT ![p] = Caught(req[p], MsgNullDb)]
            /\ UNCHANGED db
       ELSE /\ db' = client
            /\ req' = [req EXCEPT ![p] = AfterConnect(req[p], client)]
    /\ UNCHANGED <<client, store>>
    /\ UNCHANGED <<proc, browser>>

\* `await this.client.connect()` rejects: connect() throws to its caller and
\* this.client stays as it is.
ConnectRejected(p) ==
    /\ req[p].pc = "connect"
    /\ conn' = [conn EXCEPT ![req[p].cl] = "failed"]
    /\ req' = [req EXCEPT ![p] = Caught(req[p], MsgConnectFailed)]
    /\ UNCHANGED <<client, db, store>>
    /\ UNCHANGED <<proc, browser>>

\* The filter on the storage key: { "_id": document.document_id }.
IdFilterByStorageKey(document, d) == d._id = document.document_id

\* The filter { "document_id": document.document_id } on a stored document d.
IdFilter(document, d) == d.document_id = document.document_id

\* contentSignature, lines 35-39, on a stored document d.
ContentSignature(document, d) ==
    /\ d.title = document.title
    /\ d.author = document.author
    /\ RegexMatches[document.content_text, d.content_text]

\* insertDocument, lines 26-32: the first findOne answers.
FindById(p) ==
    /\ req[p].pc = "findById"
    /\ LET existing ==
               FirstMatch({i \in 1..Len(store) : IdFilter(req[p].body, store[i])})
       IN  req' = [req EXCEPT ![p] =
                IF existing # 0 THEN Caught(req[p], MsgDuplicateId)
                ELSE [req[p] EXCEPT !.pc = "findContent"]]
    /\ UNCHANGED <<client, db, conn, store>>
    /\ UNCHANGED <<proc, browser>>

\* insertDocument, lines 41-44: the second findOne answers.
FindContent(p) ==
    /\ req[p].pc = "findContent"
    /\ LET duplicateContent ==
               FirstMatch({i \in 1..Len(store) :
                              ContentSignature(req[p].body, store[i])})
       IN  req' = [req EXCEPT ![p] =
                IF duplicateContent # 0 THEN Caught(req[p], MsgDuplicateContent)
                ELSE [req[p] EXCEPT !.pc = "insertOne"]]
    /\ UNCHANGED <<client, db, conn, store>>
    /\ UNCHANGED <<proc, browser>>

\* insertDocument, line 46, and lines 59-65 of the handler: insertOne stores
\* the document under a fresh _id (the number of the request), and the
\* handler answers with it.
InsertOne(p) ==
    /\ req[p].pc = "insertOne"
    /\ store' = Append(store,
            [f \in (DOMAIN req[p].body) \cup {"_id"} |->
                IF f = "_id" THEN p ELSE req[p].body[f]])
    /\ req' = [req EXCEPT ![p] =
            Done([req[p] EXCEPT !.status = 200, !.insertedId = p])]
    /\ UNCHANGED <<client, db, conn>>
    /\ UNCHANGED <<proc, browser>>

\* updateDocument, lines 67-70: updateOne answers.
UpdateOne(p) ==
    /\ req[p].pc = "updateOne"
    /\ LET i == FirstMatch({k \in 1..Len(store) :
                                store[k].document_id = req[p].id})
           setDoc == req[p].patch
           incDoc == [version |-> 1]
       IN  IF UpdateConflicts(setDoc, incDoc)
           THEN /\ req' = [req EXCEPT ![p] = Caught(req[p], MsgUpdateConflict)]
                /\ UNCHANGED store
           ELSE /\ store' = IF i = 0 THEN store
                            ELSE [store EXCEPT ![i] = ApplyUpdate(@, setDoc, incDoc)]
                /\ req' = [req EXCEPT ![p] =
                        Done([req[p] EXCEPT !.count = IF i = 0 THEN 0 ELSE 1])]
    /\ UNCHANGED <<client, db, conn>>
    /\ UNCHANGED <<proc, browser>>

\* deleteDocument, line 76: deleteOne answers.
DeleteOne(p) ==
    /\ req[p].pc = "deleteOne"
    /\ LET i == FirstMatch({k \in 1..Len(store) :
                                store[k].document_id = req[p].id})
       IN  /\ store' = DeleteAt(store, i)
           /\ req' = [req EXCEPT ![p] =
                   Done([req[p] EXCEPT !.count = IF i = 0 THEN 0 ELSE 1])]
    /\ UNCHANGED <<client, db, conn>>
    /\ UNCHANGED <<proc, browser>>

Next ==
    \/ \E p \in Reqs, b \in Bodies : PostInsertDocument(p, b)
    \/ \E p \in Reqs, id \in DocumentIds, patch \in Patches :
            CallUpdateDocument(p, id, patch)
    \/ \E p \in Reqs, id \in DocumentIds : CallDeleteDocument(p, id)
    \/ \E p \in Reqs : GetHealth(p)
    \/ \E p \in Reqs : ConnectResolved(p)
    \/ \E p \in Reqs : ConnectRejected(p)
    \/ \E p \in Reqs : FindById(p)
    \/ \E p \in Reqs : FindContent(p)
    \/ \E p \in Reqs : InsertOne(p)
    \/ \E p \in Reqs : UpdateOne(p)
    \/ \E p \in Reqs : DeleteOne(p)

Spec == Init /\ [][Next]_vars

----------------------------------------------------------------------------
(* Shutdown: close() and the ways the server process ends.                 *)

\* The driver's error when closing the client fails.
MsgCloseFailed == <<"close", "failed">>

\* What follows `await mongoService.close()` in the SIGINT handler:
\* process.exit(0); a direct caller of close() just goes on.
Closed(r) == IF r.op = "sigint" THEN "exit0" ELSE proc

\* close() called by request p, whose record is r: up to its await, or up to
\* its return when there is no client.
close(p, r) ==
    IF client # NULL
    THEN /\ req' = [req EXCEPT ![p] = [r EXCEPT !.pc = "close", !.cl = client]]
         /\ UNCHANGED proc
    ELSE /\ req' = [req EXCEPT ![p] = Done(r)]
         /\ proc' = Closed(r)

\* mongoService.close() called by a user of the gateway.
CallClose(p) ==
    /\ Arrives(p)
    /\ close(p, [Idle EXCEPT !.op = "close"])
    /\ UNCHANGED <<client, db, conn, store, browser>>

\* SIGINT is delivered: the handler of lines 156-166, up to the await in
\* close().
Sigint(p) ==
    /\ Arrives(p)
    /\ close(p, [Idle EXCEPT !.op = "sigint"])
    /\ UNCHANGED <<client, db, conn, store, browser>>

\* `await this.client.close()` resolves: lines 108-109, and the caller's
\* continuation.  An established connection is released; an attempt still
\* under way goes on to resolve or reject.
CloseResolved(p) ==
    /\ req[p].pc = "close"
    /\ conn' = [conn EXCEPT ![req[p].cl] =
                    IF @ = "connected" THEN "closed" ELSE @]
    /\ client' = NULL
    /\ db' = NULL
    /\ req' = [req EXCEPT ![p] = Done(req[p])]
    /\ proc' = Closed(req[p])
    /\ UNCHANGED <<store, browser>>

\* `await this.client.close()` rejects: close() throws to its caller, and
\* the SIGINT handler's catch block calls process.exit(1).
CloseRejected(p) ==
    /\ req[p].pc = "close"
    /\ req' = [req EXCEPT ![p] = Done([req[p] EXCEPT !.thrown = MsgCloseFailed])]
    /\ proc' = IF req[p].op = "sigint" THEN "exit1" ELSE proc
    /\ UNCHANGED <<client, db, conn, store, browser>>

\* SIGTERM is delivered: the server registers no handler for it, so the
\* runtime ends the process at once.
Sigterm ==
    /\ proc' = "killed"
    /\ UNCHANGED <<server, browser>>

Running == proc = "running"

\* The server with its health endpoint, close() and the signals; nothing
\* runs once the process has exited.
LifeNext ==
    \/ \E p \in Reqs : Running /\ GetHealth(p)
    \/ \E p \in Reqs : Running /\ ConnectResolved(p)
    \/ \E p \in Reqs : Running /\ ConnectRejected(p)
    \/ \E p \in Reqs : Running /\ CallClose(p)
    \/ \E p \in Reqs : Running /\ Sigint(p)
    \/ \E p \in Reqs : Running /\ CloseResolved(p)
    \/ \E p \in Reqs : Running /\ CloseRejected(p)
    \/ Running /\ Sigterm

LifeSpec == Init /\ [][LifeNext]_vars

----------------------------------------------------------------------------
(* The normalizer applied to a pasted text, and to its own result.         *)

\* cleanText(x).
Clean ==
    /\ norm.pc = "raw"
    /\ norm' = [norm EXCEPT !.pc = "once", !.once = cleanText(norm.x)]
    /\ UNCHANGED <<server, proc, pageVars>>

\* cleanText(cleanText(x)).
CleanAgain ==
    /\ norm.pc = "once"
    /\ norm' = [norm EXCEPT !.pc = "twice", !.twice = cleanText(norm.once)]
    /\ UNCHANGED <<server, proc, pageVars>>

CleanInit ==
    /\ Start
    /\ PageLoad(ScriptCleaning)
    /\ norm \in {[NoNorm EXCEPT !.pc = "raw", !.x = x] : x \in Inputs}

CleanNext == Clean \/ CleanAgain

CleanSpec == CleanInit /\ [][CleanNext]_vars

----------------------------------------------------------------------------
(* The page's preview and submit flow, one action per event handler or     *)
(* step between awaits.  The server is the page's environment: it answers  *)
(* a request with success or with an error, or the request fails.          *)

\* The operator types into the form.
EditForm(f) ==
    /\ f # form
    /\ form' = f
    /\ UNCHANGED <<currentDocumentData, previewed, page, calls>>
    /\ UNCHANGED <<server, proc, norm>>

\* generatePreview(): nothing when the validation fails; otherwise the
\* record is built with a fresh document_id and held.
generatePreview ==
    /\ page.previews < MaxPreviews
    /\ IF ~validateForm(form)
       THEN UNCHANGED <<currentDocumentData, previewed, page>>
       ELSE LET data == createDocumentStructure(page.script, form,
                                                page.previews + 1)
            IN  /\ currentDocumentData' = data
                /\ previewed' = data
                /\ page' = [page EXCEPT !.previews = @ + 1]
    /\ UNCHANGED <<form, calls>>
    /\ UNCHANGED <<server, proc, norm>>

\* cancelPreview().
cancelPreview ==
    /\ currentDocumentData' = NoDocument
    /\ previewed' = NoDocument
    /\ UNCHANGED <<form, page, calls>>
    /\ UNCHANGED <<server, proc, norm>>

\* The body of clearForm(), with the operator's answer to confirm().
ClearFormAnswered(confirmed) ==
    IF confirmed
    THEN /\ form' = EmptyForm
         /\ currentDocumentData' = NoDocument
         /\ previewed' = NoDocument
    ELSE UNCHANGED <<form, currentDocumentData, previewed>>

\* clearForm() called by the operator.
clearForm(confirmed) ==
    /\ ClearFormAnswered(confirmed)
    /\ UNCHANGED <<page, calls>>
    /\ UNCHANGED <<server, proc, norm>>

\* The record insertDocument() sends, built anew from the form.
RequestBodyFromForm ==
    createDocumentStructure(page.script, form, page.previews + 1)

\* JSON.stringify(currentDocumentData): the record insertDocument() sends.
RequestBody == currentDocumentData

\* insertDocument() called by a click on the insert button (only an enabled
\* button takes a click), up to `await fetch(...)`.
insertDocument ==
    /\ ~page.disabled
    /\ Len(calls) < MaxCalls
    /\ IF currentDocumentData = NoDocument
       THEN UNCHANGED <<page, calls>>
       ELSE /\ page' = [page EXCEPT !.disabled = TRUE]
            /\ calls' = Append(calls, [body |-> RequestBody, pc |-> "fetch",
                                       ok |-> FALSE])
    /\ UNCHANGED <<form, currentDocumentData, previewed>>
    /\ UNCHANGED <<server, proc, norm>>

\* The response arrives, with response.ok as the server decided: the call
\* goes on to `await response.json()`.
FetchResolved(i, ok) ==
    /\ calls[i].pc = "fetch"
    /\ calls' = [calls EXCEPT ![i] = [@ EXCEPT !.pc = "json", !.ok = ok]]
    /\ UNCHANGED <<form, currentDocumentData, previewed, page>>
    /\ UNCHANGED <<server, proc, norm>>

\* The request fails: the catch block, then the finally block.
FetchRejected(i) ==
    /\ calls[i].pc = "fetch"
    /\ calls' = [calls EXCEPT ![i] = [@ EXCEPT !.pc = "done"]]
    /\ page' = [page EXCEPT !.disabled = FALSE]
    /\ UNCHANGED <<form, currentDocumentData, previewed>>
    /\ UNCHANGED <<server, proc, norm>>

\* `await response.json()` resolves: after a success the timer for
\* clearForm() is set; after an error the catch block runs; then the finally
\* block enables the button.
JsonResolved(i) ==
    /\ calls[i].pc = "json"
    /\ calls' = [calls EXCEPT ![i] = [@ EXCEPT !.pc = "done"]]
    /\ page' = [page EXCEPT !.disabled = FALSE,
                            !.timers = IF calls[i].ok THEN @ + 1 ELSE @]
    /\ UNCHANGED <<form, currentDocumentData, previewed>>
    /\ UNCHANGED <<server, proc, norm>>

\* A timer set after a success fires, two seconds later: clearForm().
TimerFires(confirmed) ==
    /\ page.timers > 0
    /\ page' = [page EXCEPT !.timers = @ - 1]
    /\ ClearFormAnswered(confirmed)
    /\ UNCHANGED calls
    /\ UNCHANGED <<server, proc, norm>>

PageInit ==
    /\ Start
    /\ norm = NoNorm
    /\ \E script \in Scripts : PageLoad(script)

PageNext ==
    \/ \E f \in Forms : EditForm(f)
    \/ generatePreview
    \/ cancelPreview
    \/ \E confirmed \in BOOLEAN : clearForm(confirmed)
    \/ insertDocument
    \/ \E i \in 1..MaxCalls, ok \in BOOLEAN :
            i <= Len(calls) /\ FetchResolved(i, ok)
    \/ \E i \in 1..MaxCalls : i <= Len(calls) /\ FetchRejected(i)
    \/ \E i \in 1..MaxCalls : i <= Len(calls) /\ JsonResolved(i)
    \/ \E confirmed \in BOOLEAN : TimerFires(confirmed)

PageSpec == PageInit /\ [][PageNext]_vars

----------------------------------------------------------------------------
(* Properties.                                                             *)

\* Request p takes a step.
Steps(p) == req'[p] # req[p]

\* Some stored document has the document_id id.
IdInStore(id) == \E i \in 1..Len(store) : store[i].document_id = id

\* C1: however many connect() calls are issued before the first connection
\* is established, at most one MongoClient is constructed.
C1_AtMostOneClient == Len(conn) <= 1

\* A second connect() call has returned while the first client is still
\* connecting.
C1_Witness ==
    /\ conn = <<"connecting">>
    /\ \E p \in Reqs : req[p].pc = "connect"
    /\ \E q \in Reqs : req[q].pc = "done" /\ req[q].handle # -1

\* C2: a connect() call that arrives while an earlier one is establishing
\* the connection returns only once it is established, with the database
\* handle: no connect() call returns null.
C2_ConnectReturnsHandle == \A p \in Reqs : req[p].handle # NULL

\* C3: an insertDocument call whose document_id is that of a stored record
\* (no other call running in between) fails with the duplicate-id error, and
\* no step of the call changes the store.
C3_DuplicateIdRejected ==
    [][\A p \in Reqs :
        /\ (req[p].pc = "idle" /\ Steps(p) /\ req'[p].op = "insert")
                => store' = store
        /\ (req[p].pc = "findById" /\ Steps(p)
                /\ IdInStore(req[p].body.document_id))
                => /\ req'[p].pc = "done"
                   /\ req'[p].thrown = MsgDuplicateId
                   /\ store' = store]_vars

\* The second of two inserts was rejected for its id, the first is stored.
C3_Witness ==
    /\ Len(store) = 1
    /\ req[1].pc = "done" /\ req[1].insertedId = store[1]._id
    /\ req[2].pc = "done" /\ req[2].thrown = MsgDuplicateId
    /\ req[3].pc = "idle"

\* The first PrefixLen characters of the text new, compared one by one with
\* the beginning of the text old.
BeginsWithPrefixOf(old, new) ==
    LET n == Min(PrefixLen, Len(new))
    IN  Len(old) >= n /\ \A k \in 1..n : old[k] = new[k]

BeginsWith ==
    [old \in Texts, new \in Texts |-> BeginsWithPrefixOf(Chars(old), Chars(new))]

\* Some stored record has the title and the author of document, and a text
\* that begins with the first 100 characters of document's text.
SimilarInStore(document) ==
    \E i \in 1..Len(store) :
        /\ store[i].title = document.title
        /\ store[i].author = document.author
        /\ BeginsWith[store[i].content_text, document.content_text]

\* C4: an insertDocument whose document_id was not found fails with the
\* duplicate-content error, persisting nothing, exactly when a stored record
\* has the same title and author and begins with the first 100 characters
\* of the new text, compared literally; otherwise the record is persisted.
C4_DuplicateContentExactly ==
    [][\A p \in Reqs :
        /\ (req[p].pc = "findContent" /\ Steps(p))
                => IF SimilarInStore(req[p].body)
                   THEN /\ req'[p].pc = "done"
                        /\ req'[p].thrown = MsgDuplicateContent
                        /\ store' = store
                   ELSE /\ req'[p].pc = "insertOne"
                        /\ req'[p].thrown = NoMsg
        /\ (req[p].pc = "insertOne" /\ Steps(p))
                => /\ Len(store') = Len(store) + 1
                   /\ SubSeq(store', 1, Len(store)) = store
                   /\ \A f \in DOMAIN req[p].body :
                        store'[Len(store')][f] = req[p].body[f]
                   /\ req'[p].thrown = NoMsg]_vars

\* The one stored text is longer than 100 characters, and a text that
\* shares its first 100 characters and differs after them was rejected.
C4_Witness ==
    /\ Len(store) = 1
    /\ store[1].content_text \in {TextLongB, TextLongC}
    /\ \E p \in Reqs : req[p].thrown = MsgDuplicateContent

\* C5: no two stored records have the same document_id, whatever the
\* interleaving of insertDocument, updateDocument and deleteDocument calls.
C5_UniqueDocumentIds ==
    \A i, j \in 1..Len(store) :
        i # j => store[i].document_id # store[j].document_id

\* C6: updateDocument(id, patch) on an existing record succeeds and leaves
\* the record with the patch merged in, updated_at set to the time of the
\* call and version one more than before, whatever the patch (req[p].patch
\* is the patch with the updated_at of the call).
C6_UpdateMergesAndIncrements ==
    [][\A p \in Reqs :
        (req[p].pc = "updateOne" /\ Steps(p) /\ IdInStore(req[p].id))
            => LET i == FirstMatch({k \in 1..Len(store) :
                                        store[k].document_id = req[p].id})
               IN  /\ req'[p].thrown = NoMsg
                   /\ Len(store') = Len(store)
                   /\ store'[i].version = store[i].version + 1
                   /\ \A f \in (DOMAIN req[p].patch) \ {"version"} :
                        store'[i][f] = req[p].patch[f]]_vars

\* C7: deleteDocument(id) raises no error and removes the record with that
\* document_id, so that a second call with the same id finds nothing to
\* remove; the records with other ids stay as they are.
C7_DeleteIdempotent ==
    [][\A p \in Reqs :
        (req[p].pc = "deleteOne" /\ Steps(p))
            => LET Other(d) == d.document_id # req[p].id
               IN  /\ req'[p].thrown = NoMsg
                   /\ \A i \in 1..Len(store') : Other(store'[i])
                   /\ SelectSeq(store', Other) = SelectSeq(store, Other)]_vars

\* C8: the insert endpoint gives every request one answer, and none before
\* the request is finished: 409 exactly when the gateway rejected with the
\* duplicate-id or the duplicate-content error, 500 exactly when it
\* rejected with another error, a success body with insertedId exactly when
\* the record was inserted, 400 exactly when the gateway was never called.
C8_OneOutcomePerRequest ==
    \A p \in Reqs :
        req[p].op = "insert" =>
            LET r == req[p]
                duplicate == r.thrown \in {MsgDuplicateId, MsgDuplicateContent}
                failed == r.thrown # NoMsg /\ ~duplicate
                inserted == r.insertedId # 0
                invalid == r.error \in {MsgMissingFields, MsgMissingAttribution}
            IN  IF r.pc # "done" THEN r.status = 0
                ELSE /\ r.status \in {200, 400, 409, 500}
                     /\ (r.status = 409) = duplicate
                     /\ (r.status = 500) = failed
                     /\ (r.status = 200) = inserted
                     /\ (r.status = 400) = invalid
                     /\ duplicate => r.error = r.thrown
                     /\ failed => r.error = MsgFailedToInsert \o r.thrown
                     /\ inserted => r.error = NoMsg /\ r.thrown = NoMsg
                     /\ invalid => r.thrown = NoMsg /\ r.handle = -1

\* One insert request was answered 500 and one 409, for duplicate content.
C8_Witness ==
    /\ \E p \in Reqs : req[p].op = "insert" /\ req[p].status = 500
    /\ \E p \in Reqs : req[p].status = 409 /\ req[p].thrown = MsgDuplicateContent

\* C9: every stored record has a non-empty attribution.title,
\* attribution.author and attribution.content_type.
C9_RequiredAttribution ==
    \A i \in 1..Len(store) :
        /\ store[i].title # ""
        /\ store[i].author # ""
        /\ store[i].content_type # ""

\* C10: every stored record has character_count equal to the length of its
\* content_text and token_count equal to ceil(character_count / 4).
C10_CountsConsistent ==
    \A i \in 1..Len(store) :
        /\ store[i].character_count = Length(store[i].content_text)
        /\ store[i].token_count = CeilDiv4(store[i].character_count)

\* C12: a health request is answered healthy (200) only when the store
\* connection is established: never while the only connection attempt is
\* under way or has failed.
C12_HealthyOnlyWhenConnected ==
    \A p \in Reqs :
        (req[p].op = "health" /\ req[p].status = 200)
            => \E c \in 1..Len(conn) : conn[c] = "connected"

\* C11: whenever the server process has exited, by SIGINT or by another
\* signal, no store connection is left established: close() has released
\* it before the exit.
C11_ReleasedBeforeExit ==
    ~Running => \A c \in 1..Len(conn) : conn[c] # "connected"

\* C15: no interleaving of close() with a connect() in flight leaves the
\* service with a database handle and no client, or makes connect() fail on
\* a missing client.
C15_CloseSafeWithConnect ==
    /\ db # NULL => client # NULL
    /\ \A p \in Reqs : req[p].thrown # MsgNullDb

\* C13: the normalizer is idempotent: cleanText(cleanText(x)) = cleanText(x)
\* for every pasted text x.
C13_CleanTextIdempotent ==
    norm.pc = "twice" => norm.twice = norm.once

\* C14: every record the record builder produces has content_text equal to
\* the normalized form of the pasted text, character_count equal to the
\* length of that normalized text, and token_count equal to
\* ceil(character_count / 4).
C14_CountsFromNormalizedText ==
    [][(currentDocumentData' # currentDocumentData
            /\ currentDocumentData' # NoDocument)
        => LET normalized == cleanText(Trim(form.text))
           IN  /\ currentDocumentData'.content_text = normalized
               /\ currentDocumentData'.character_count = Len(normalized)
               /\ currentDocumentData'.token_count
                    = CeilDiv4(Len(normalized))]_vars

\* C16: a record becomes the previewed one only when generatePreview passes
\* the form validation; an insert request is sent only while there is a
\* previewed record (none after page load, cancelPreview or a confirmed
\* clearForm), and the record sent is the previewed one, whatever the form
\* holds by then.
C16_SendsOnlyThePreviewedRecord ==
    [][/\ (previewed' # previewed /\ previewed' # NoDocument)
            => validateForm(form)
       /\ Len(calls') > Len(calls)
            => /\ previewed # NoDocument
               /\ calls'[Len(calls')].body = previewed]_vars

\* A request is in flight with the record of the second preview, while the
\* form has been edited since and would not pass the validation now.
C16_Witness ==
    /\ Len(calls) > 0
    /\ calls[Len(calls)].pc = "fetch"
    /\ calls[Len(calls)].body = previewed
    /\ calls[Len(calls)].body.document_id = 2
    /\ ~validateForm(form)

\* C17: once a success response has been received for a record, that
\* record is not sent again.
C17_NoResendAfterSuccess ==
    \A i, j \in 1..Len(calls) :
        (i < j /\ calls[i].pc = "done" /\ calls[i].ok)
            => calls[j].body # calls[i].body

====
